---------------------------- MODULE Spec2Model ----------------------------
(***************************************************************************)
(* Model of the zero-result analysis pipeline of search-analytics          *)
(* (src/python/zero_results_analysis.py, class ZeroResultsAnalyzer).       *)
(*                                                                         *)
(* Representation.  A Python str is a sequence of one-character strings;   *)
(* None / NaN in a column is the value None below.  A DataFrame is the     *)
(* sequence of its rows (records) plus one variable per column a stage     *)
(* adds to it.  A float that the code obtains by one division of two       *)
(* integers is the reduced fraction <<num, den>> (NaN for 0/0).            *)
(***************************************************************************)
EXTENDS Integers, Sequences, FiniteSets, TLC

VARIABLES
    zero_results_df,         \* rows of the zero-result DataFrame
    col_normalized,          \* column 'search_term_normalized' (NoColumn when absent)
    col_category,            \* column 'category' (NoColumn when absent)
    successful_searches_df,  \* column 'search_term' of the successful searches
    top_n,                   \* argument of analyze_top_zero_result_terms
    top_terms,               \* outcome of analyze_top_zero_result_terms
    typo_df,                 \* outcome of detect_potential_typos
    regional_analysis,       \* outcome of analyze_by_region
    category_summary,        \* outcome of categorize_zero_results
    ga4_events,              \* the event log behind self.spark
    start_date,              \* arguments of generate_content_gap_report
    end_date,
    pc,                      \* position inside generate_content_gap_report
    queries,                 \* spark.sql calls executed by the invocation
    trend_df,                \* outcome of calculate_zero_result_rate_trend
    report                   \* what generate_content_gap_report returned

vars == <<zero_results_df, col_normalized, col_category, successful_searches_df, top_n,
          top_terms, typo_df, regional_analysis, category_summary,
          ga4_events, start_date, end_date, pc, queries, trend_df, report>>

--------------------------------------------------------------------------
(* Characters and strings *)

LowerLetters == <<"a","b","c","d","e","f","g","h","i","j","k","l","m",
                  "n","o","p","q","r","s","t","u","v","w","x","y","z">>
UpperLetters == <<"A","B","C","D","E","F","G","H","I","J","K","L","M",
                  "N","O","P","Q","R","S","T","U","V","W","X","Y","Z">>

IsUpper(c) == \E i \in 1..Len(UpperLetters) : UpperLetters[i] = c
IsLower(c) == \E i \in 1..Len(LowerLetters) : LowerLetters[i] = c

\* Python ord(): code point of a character (space, A-Z, a-z).
Ord(c) ==
    IF IsUpper(c) THEN 64 + (CHOOSE i \in 1..Len(UpperLetters) : UpperLetters[i] = c)
    ELSE IF IsLower(c) THEN 96 + (CHOOSE i \in 1..Len(LowerLetters) : LowerLetters[i] = c)
    ELSE 32

\* None (a missing value: Python None, pandas NaN).  It is no string: its one
\* element is not a character.
None == <<"None">>

IsWhitespace(c) == c = " "

LowerChar(c) ==
    IF IsUpper(c) THEN LowerLetters[CHOOSE i \in 1..Len(UpperLetters) : UpperLetters[i] = c]
    ELSE c

\* str.lower()
StrLower(s) == [i \in 1..Len(s) |-> LowerChar(s[i])]

\* str.strip(): leading and trailing whitespace removed.
StrStrip(s) ==
    LET keep == {i \in 1..Len(s) : ~IsWhitespace(s[i])}
    IN  IF keep = {} THEN <<>>
        ELSE LET lo == CHOOSE i \in keep : \A j \in keep : i <= j
                 hi == CHOOSE i \in keep : \A j \in keep : j <= i
             IN  SubSeq(s, lo, hi)

\* len(s.split()): the number of whitespace-delimited tokens.
SplitLen(s) ==
    Cardinality({i \in 1..Len(s) :
                    /\ ~IsWhitespace(s[i])
                    /\ (i = 1 \/ IsWhitespace(s[i-1]))})

\* Python's `word in s` for strings: substring containment.
StrContains(s, word) ==
    \E i \in 1..(Len(s) - Len(word) + 1) : SubSeq(s, i, i + Len(word) - 1) = word

\* Python's s < t for strings: lexicographic by code point, a proper prefix first.
StrLess(s, t) ==
    \E k \in 0..Len(s) :
        /\ k <= Len(t)
        /\ \A i \in 1..k : s[i] = t[i]
        /\ \/ (k = Len(s) /\ k < Len(t))
           \/ (k < Len(s) /\ k < Len(t) /\ Ord(s[k+1]) < Ord(t[k+1]))

\* A mutant of SeriesStrLower: the terms are compared as typed.
SeriesStrLower_AsTyped(v) == v

\* The pandas .str accessor maps a missing value to NaN.
SeriesStrLower(v) == IF v = None THEN None ELSE StrLower(v)
SeriesStrStrip(v) == IF v = None THEN None ELSE StrStrip(v)

--------------------------------------------------------------------------
(* categorize_search *)

KwComparison == << <<"v","s">>, <<"v","e","r","s","u","s">>,
                   <<"c","o","m","p","a","r","e">>, <<"o","r">> >>
KwPricing    == << <<"p","r","i","c","e">>, <<"c","o","s","t">>,
                   <<"m","s","r","p">>, <<"l","e","a","s","e">> >>
KwFeature    == << <<"m","p","g">>, <<"h","o","r","s","e","p","o","w","e","r">>,
                   <<"h","p">>, <<"r","a","n","g","e">>,
                   <<"b","a","t","t","e","r","y">> >>

\* any(word in search_lower for word in words)
AnyWordIn(words, search_lower) ==
    \E w \in 1..Len(words) : StrContains(search_lower, words[w])

\* A mutant of categorize_search: the token-count rule is tried before the
\* feature keywords.
categorize_search_SingleFirst(search_term) ==
    LET search_lower == StrLower(search_term)
    IN  IF AnyWordIn(KwComparison, search_lower) THEN "Comparison Query"
        ELSE IF AnyWordIn(KwPricing, search_lower) THEN "Pricing Query"
        ELSE IF SplitLen(search_term) = 1 THEN "Single Word (Broad)"
        ELSE IF AnyWordIn(KwFeature, search_lower) THEN "Feature/Spec Query"
        ELSE "Other"

categorize_search(search_term) ==
    LET search_lower == StrLower(search_term)
    IN  IF AnyWordIn(KwComparison, search_lower) THEN "Comparison Query"
        ELSE IF AnyWordIn(KwPricing, search_lower) THEN "Pricing Query"
        ELSE IF AnyWordIn(KwFeature, search_lower) THEN "Feature/Spec Query"
        ELSE IF SplitLen(search_term) = 1 THEN "Single Word (Broad)"
        ELSE "Other"

--------------------------------------------------------------------------
(* Fractions: the value of one float division of two integers *)

NaN == <<0, 0>>

RECURSIVE Gcd(_, _)
Gcd(m, n) == IF n = 0 THEN m ELSE Gcd(n, m % n)

\* num / den for integers num >= 0, den >= 0, in lowest terms; 0/0 is NaN.
Frac(num, den) ==
    IF den = 0 THEN NaN
    ELSE LET g == Gcd(num, den) IN <<num \div g, den \div g>>

FracLess(p, q) == p[1] * q[2] < q[1] * p[2]
FracLeq(p, q)  == p[1] * q[2] <= q[1] * p[2]

--------------------------------------------------------------------------
(* difflib: SequenceMatcher.ratio and get_close_matches, as called at      *)
(* lines 121-126 (strings shorter than 200 characters: no autojunk)        *)

CloseMatchesN == 3
\* cutoff = 0.6 = CutoffNum / CutoffDen
CutoffNum == 6
CutoffDen == 10

Min(x, y) == IF x <= y THEN x ELSE y

\* SequenceMatcher.find_longest_match(alo, ahi, blo, bhi), Python's 0-based
\* half-open ranges: the longest block a[i:i+k] == b[j:j+k], of those the one
\* starting earliest in a, of those the one starting earliest in b.
FindLongestMatch(a, b, alo, ahi, blo, bhi) ==
    LET Match(i, j, k) ==
            /\ i + k <= ahi
            /\ j + k <= bhi
            /\ \A d \in 0..(k-1) : a[i + d + 1] = b[j + d + 1]
        Sizes == {k \in 1..Min(ahi - alo, bhi - blo) :
                    \E i \in alo..(ahi-1), j \in blo..(bhi-1) : Match(i, j, k)}
    IN  IF Sizes = {} THEN <<alo, blo, 0>>
        ELSE LET k  == CHOOSE x \in Sizes : \A y \in Sizes : y <= x
                 Is == {i \in alo..(ahi-1) : \E j \in blo..(bhi-1) : Match(i, j, k)}
                 i  == CHOOSE x \in Is : \A y \in Is : x <= y
                 Js == {j \in blo..(bhi-1) : Match(i, j, k)}
                 j  == CHOOSE x \in Js : \A y \in Js : x <= y
             IN  <<i, j, k>>

\* Sum of the sizes of SequenceMatcher.get_matching_blocks(): the longest
\* match, then the same to its left and to its right.
RECURSIVE MatchingSize(_, _, _, _, _, _)
MatchingSize(a, b, alo, ahi, blo, bhi) ==
    LET m == FindLongestMatch(a, b, alo, ahi, blo, bhi)
        i == m[1]
        j == m[2]
        k == m[3]
    IN  IF k = 0 THEN 0
        ELSE k
             + (IF alo < i /\ blo < j
                THEN MatchingSize(a, b, alo, i, blo, j) ELSE 0)
             + (IF i + k < ahi /\ j + k < bhi
                THEN MatchingSize(a, b, i + k, ahi, j + k, bhi) ELSE 0)

\* difflib._calculate_ratio(matches, length)
CalculateRatio(matches, length) ==
    IF length = 0 THEN <<1, 1>> ELSE Frac(2 * matches, length)

\* SequenceMatcher(a, b).ratio()
Ratio(a, b) ==
    CalculateRatio(MatchingSize(a, b, 0, Len(a), 0, Len(b)), Len(a) + Len(b))

\* SequenceMatcher.real_quick_ratio(): an upper bound from the lengths alone.
RealQuickRatio(a, b) == CalculateRatio(Min(Len(a), Len(b)), Len(a) + Len(b))

\* SequenceMatcher.quick_ratio(): an upper bound from the character counts.
QuickRatio(a, b) ==
    LET Count(s, c) == Cardinality({i \in 1..Len(s) : s[i] = c})
        chars == {a[i] : i \in 1..Len(a)}
        RECURSIVE Sum(_)
        Sum(S) == IF S = {} THEN 0
                  ELSE LET c == CHOOSE x \in S : TRUE
                       IN  Min(Count(a, c), Count(b, c)) + Sum(S \ {c})
    IN  CalculateRatio(Sum(chars), Len(a) + Len(b))

\* A mutant of Cutoff: a cutoff of 0.5.
Cutoff_Half == <<CutoffNum - 1, CutoffDen>>

Cutoff == <<CutoffNum, CutoffDen>>

\* The test of get_close_matches' loop: x is kept when all three ratios
\* reach the cutoff.  seq1 is the possibility x, seq2 the word.
ClearsCutoff(x, word) ==
    /\ FracLeq(Cutoff, RealQuickRatio(x, word))
    /\ FracLeq(Cutoff, QuickRatio(x, word))
    /\ FracLeq(Cutoff, Ratio(x, word))

\* A mutant of ScoredLess: equal scores are ranked by shorter string first,
\* then by the smaller string first.
ScoredLess_ShorterFirst(p, q) ==
    \/ FracLess(p[1], q[1])
    \/ /\ ~FracLess(q[1], p[1])
       /\ \/ Len(q[2]) < Len(p[2])
          \/ (Len(q[2]) = Len(p[2]) /\ StrLess(q[2], p[2]))

\* Python's order of the tuples (score, x): by score, then by the string x.
ScoredLess(p, q) ==
    \/ FracLess(p[1], q[1])
    \/ (~FracLess(q[1], p[1]) /\ StrLess(p[2], q[2]))

\* heapq.nlargest(n, result): the n largest tuples, largest first.
RECURSIVE NLargest(_, _)
NLargest(n, result) ==
    IF n = 0 \/ result = {} THEN <<>>
    ELSE LET top == CHOOSE p \in result :
                        \A q \in result : q = p \/ ScoredLess(q, p)
         IN  <<top>> \o NLargest(n - 1, result \ {top})

\* get_close_matches(word, possibilities, n=3, cutoff=0.6) for strings.
get_close_matches(word, possibilities) ==
    LET result == {<<Ratio(possibilities[x], word), possibilities[x]>> :
                      x \in {y \in 1..Len(possibilities) :
                                ClearsCutoff(possibilities[y], word)}}
        best   == NLargest(CloseMatchesN, result)
    IN  [r \in 1..Len(best) |-> best[r][2]]


--------------------------------------------------------------------------
(* pandas pieces used by the stages *)

\* Series.unique(): the distinct values in order of first appearance
\* (a missing value is one of them).
RECURSIVE Unique(_)
Unique(s) ==
    IF s = <<>> THEN <<>>
    ELSE LET init == Unique(SubSeq(s, 1, Len(s) - 1))
             last == s[Len(s)]
         IN  IF \E i \in 1..Len(init) : init[i] = last THEN init
             ELSE Append(init, last)

RECURSIVE SumSeq(_)
SumSeq(s) == IF s = <<>> THEN 0 ELSE s[1] + SumSeq(Tail(s))

\* A mutant of SortValuesDescending: a sort that also puts the rows in
\* ascending key order.
SortValuesAscending(rows, by) ==
    LET n == Cardinality(rows)
    IN  {f \in [1..n -> rows] :
            /\ \A i, j \in 1..n : i # j => f[i] # f[j]
            /\ \A i \in 1..(n-1) : f[i][by] <= f[i+1][by]}

\* DataFrame.sort_values(by, ascending=False) with the default
\* kind='quicksort', which is not stable: every arrangement of the rows with
\* the key descending is a possible result; rows with equal keys come in an
\* order the numpy build decides.
SortValuesDescending(rows, by) ==
    LET n == Cardinality(rows)
    IN  {f \in [1..n -> rows] :
            /\ \A i, j \in 1..n : i # j => f[i] # f[j]
            /\ \A i \in 1..(n-1) : f[i][by] >= f[i+1][by]}

\* DataFrame.head(n) for n >= 0
DfHead(rows, n) == SubSeq(rows, 1, Min(n, Len(rows)))

\* Series.nunique(): distinct values, missing values not counted.
NUnique(values) == Cardinality({values[i] : i \in 1..Len(values)} \ {None})

\* The outcome of a stage: status "ok" with the rows of the returned
\* DataFrame, or the name of the exception that ended the call.
NotRun        == [status |-> "NotRun", rows |-> <<>>]
Returned(r)   == [status |-> "ok", rows |-> r]
Raised(error) == [status |-> error, rows |-> <<>>]

\* A column a stage may add to the DataFrame it is given.
NoColumn       == [present |-> FALSE, values |-> <<>>]
Column(values) == [present |-> TRUE, values |-> values]

--------------------------------------------------------------------------
(* analyze_top_zero_result_terms *)

\* Lines 77-81: the column search_term_normalized.
NormalizedColumn(df) ==
    [i \in 1..Len(df) |-> SeriesStrStrip(SeriesStrLower(df[i].search_term))]

\* A mutant of PercentageTotal: the total is taken over the rows kept by
\* head(top_n) instead of over all groups.
PercentageTotal_AfterHead(counts, n) ==
    SumSeq(DfHead(counts, n))

\* Line 93: term_counts['search_count'].sum(), over all groups.
PercentageTotal(counts, n) ==
    SumSeq(counts)

\* Lines 84-98.  groupby drops the rows whose key is missing; 'count' counts
\* the non-missing user_pseudo_id of a group; 'first' is the group's first
\* search_term.  The set of DataFrames the call can return.
TopTermsResults(df, n) ==
    LET norm   == NormalizedColumn(df)
        keys   == {norm[i] : i \in 1..Len(df)} \ {None}
        Rows(k) == {i \in 1..Len(df) : norm[i] = k}
        Group(k) ==
            [search_term_normalized |-> k,
             search_count  |-> Cardinality({i \in Rows(k) :
                                              df[i].user_pseudo_id # None}),
             original_term |-> df[CHOOSE i \in Rows(k) :
                                     \A j \in Rows(k) : i <= j].search_term]
        groups == {Group(k) : k \in keys}
    IN  {LET total == PercentageTotal([i \in 1..Len(sorted) |->
                                          sorted[i].search_count], n)
             term_counts ==
                [i \in 1..Len(sorted) |->
                    [search_term_normalized |-> sorted[i].search_term_normalized,
                     search_count  |-> sorted[i].search_count,
                     original_term |-> sorted[i].original_term,
                     percentage    |-> Frac(sorted[i].search_count * 100, total)]]
         IN  DfHead(term_counts, n)
         : sorted \in SortValuesDescending(groups, "search_count")}

--------------------------------------------------------------------------
(* detect_potential_typos *)

\* Lines 129-133: the rows whose lowercased search_term is zero_term.
Frequency(df, zero_term) ==
    Cardinality({i \in 1..Len(df) :
                    SeriesStrLower(df[i].search_term) = zero_term})

\* Lines 135-140: the suggestion appended for zero_term.
Suggestion(df, zero_term, matches) ==
    [zero_result_term     |-> zero_term,
     suggested_correction |-> matches[1],
     other_suggestions    |-> IF Len(matches) > 1
                              THEN [none |-> FALSE, items |-> Tail(matches)]
                              ELSE [none |-> TRUE, items |-> <<>>],
     frequency            |-> Frequency(df, zero_term)]

\* Lines 114-143.  get_close_matches raises TypeError on a missing value
\* (as the word, or among the possibilities once there is a word to
\* compare); sort_values('frequency') raises KeyError on the DataFrame of
\* no suggestions, which has no columns.
TypoResults(df, successful) ==
    LET zero_terms == Unique([i \in 1..Len(df) |->
                                 SeriesStrLower(df[i].search_term)])
        successful_terms == Unique([i \in 1..Len(successful) |->
                                       SeriesStrLower(successful[i])])
        HasNone(s) == \E i \in 1..Len(s) : s[i] = None
    IN  IF zero_terms # <<>> /\ (HasNone(zero_terms) \/ HasNone(successful_terms))
        THEN {Raised("TypeError")}
        ELSE LET matched ==
                    {<<zero_terms[z],
                       get_close_matches(zero_terms[z], successful_terms)>> :
                        z \in 1..Len(zero_terms)}
                 typo_suggestions ==
                    {Suggestion(df, m[1], m[2]) : m \in {x \in matched : x[2] # <<>>}}
             IN  IF typo_suggestions = {} THEN {Raised("KeyError")}
                 ELSE {Returned(sorted) :
                          sorted \in SortValuesDescending(typo_suggestions, "frequency")}

--------------------------------------------------------------------------
(* analyze_by_region and categorize_zero_results *)

\* groupby(column).agg(count of search_term, nunique of user_pseudo_id),
\* sorted by the count descending: lines 155-163 and 198-206.  `keyed` is
\* the grouping column, row by row; rows with a missing key are dropped.
GroupSummaries(df, keyed) ==
    LET keys == {keyed[i] : i \in 1..Len(df)} \ {None}
        Rows(k) == {i \in 1..Len(df) : keyed[i] = k}
        Group(k) ==
            [key          |-> k,
             count        |-> Cardinality({i \in Rows(k) : df[i].search_term # None}),
             unique_users |-> Cardinality({df[i].user_pseudo_id : i \in Rows(k)}
                                          \ {None})]
    IN  SortValuesDescending({Group(k) : k \in keys}, "count")

RegionalResults(df) ==
    {Returned(sorted) : sorted \in GroupSummaries(df, [i \in 1..Len(df) |-> df[i].region])}

\* Line 196: Series.apply(categorize_search); None has no lower().
CategoryColumn(df) == [i \in 1..Len(df) |-> <<categorize_search(df[i].search_term)>>]

CategorizeRaises(df) == \E i \in 1..Len(df) : df[i].search_term = None

CategoryResults(df) ==
    IF CategorizeRaises(df) THEN {Raised("AttributeError")}
    ELSE {Returned(sorted) : sorted \in GroupSummaries(df, CategoryColumn(df))}


--------------------------------------------------------------------------
(* The event log and the two queries *)

\* The zero-result row the load query selects from an event (the columns
\* the stages read).
ZeroResultRow(e) ==
    [event_date |-> e.event_date, search_term |-> e.search_term,
     user_pseudo_id |-> e.user_pseudo_id, region |-> e.region]

\* Lines 44-61: events with search_result_count = 0 and event_date BETWEEN
\* start_date AND end_date, ORDER BY event_date DESC (rows of one date in an
\* order SQL leaves open).  The log holds global_search_submit events only.
LoadResults(events, start, end) ==
    LET sel == {i \in 1..Len(events) :
                   /\ events[i].search_result_count = 0
                   /\ start <= events[i].event_date
                   /\ events[i].event_date <= end}
        n == Cardinality(sel)
    IN  {[k \in 1..n |-> ZeroResultRow(events[order[k]])] :
            order \in {f \in [1..n -> sel] :
                          /\ \A i, j \in 1..n : i # j => f[i] # f[j]
                          /\ \A i \in 1..(n-1) :
                                events[f[i]].event_date >= events[f[i+1]].event_date}}

\* A mutant of ZeroResultRate: the share of the searches that had results.
ZeroResultRate_Complement(zero_result_searches, total_searches) ==
    Frac(total_searches - zero_result_searches, total_searches)

\* Lines 233-235: zero_result_searches / total_searches, with no guard.
ZeroResultRate(zero_result_searches, total_searches) ==
    Frac(zero_result_searches, total_searches)

\* Lines 219-237: one row per event_date that has events in the range
\* (GROUP BY), ORDER BY event_date.
TrendRows(events, start, end) ==
    LET InRange(i) == start <= events[i].event_date /\ events[i].event_date <= end
        dates == {events[i].event_date : i \in {j \in 1..Len(events) : InRange(j)}}
        Total(d) == Cardinality({i \in 1..Len(events) : events[i].event_date = d})
        Zero(d)  == Cardinality({i \in 1..Len(events) :
                                    /\ events[i].event_date = d
                                    /\ events[i].search_result_count = 0})
        Point(d) == [event_date |-> d, total_searches |-> Total(d),
                     zero_result_searches |-> Zero(d),
                     zero_result_rate |-> ZeroResultRate(Zero(d), Total(d))]
        n == Cardinality(dates)
    IN  [k \in 1..n |->
            Point(CHOOSE d \in dates : Cardinality({x \in dates : x < d}) = k - 1)]

\* Series.mean() of the fractions in `rates`: NaN for no rows.
RECURSIVE FracSum(_)
FracSum(rates) ==
    IF rates = <<>> THEN <<0, 1>>
    ELSE LET rest == FracSum(Tail(rates))
         IN  Frac(rates[1][1] * rest[2] + rest[1] * rates[1][2], rates[1][2] * rest[2])

Mean(rates) ==
    IF rates = <<>> THEN NaN
    ELSE LET sum == FracSum(rates) IN Frac(sum[1], sum[2] * Len(rates))

\* Lines 267-278: the report of generate_content_gap_report.
Report(df, top, regional, categories, trend) ==
    [top_zero_result_terms |-> top,
     regional_analysis     |-> regional,
     category_breakdown    |-> categories,
     trend_over_time       |-> trend,
     summary |->
        [total_zero_result_searches |-> Len(df),
         unique_zero_result_terms   |-> NUnique([i \in 1..Len(df) |-> df[i].search_term]),
         affected_users             |-> NUnique([i \in 1..Len(df) |-> df[i].user_pseudo_id]),
         avg_zero_result_rate       |-> Mean([i \in 1..Len(trend) |->
                                                 trend[i].zero_result_rate])]]

\* top_n=20 at line 256
ReportTopN == 20


--------------------------------------------------------------------------
(* Bounds and input sets *)

MaxRecords         == 3   \* rows of the DataFrame given to analyze_top_zero_result_terms
MaxTopN            == 2   \* largest top_n tried
MaxZeroRecords     == 3   \* rows of the DataFrame given to detect_potential_typos
MaxCorpus          == 5   \* distinct rows of the successful-search corpus
MaxCatWords        == 3   \* words of a categorized search term
MaxPipelineRecords == 2   \* rows of the DataFrame the four stages share
MaxEvents          == 3   \* events in the log
MaxDate            == 2   \* days in the log; dates are day numbers 1..MaxDate

U1 == <<"u1">>
U2 == <<"u2">>
US == <<"US">>
EU == <<"EU">>

Row(term, user, region) ==
    [event_date |-> 1, search_term |-> term, user_pseudo_id |-> user, region |-> region]

\* All sequences of at most n elements of S.
SeqUpTo(S, n) == UNION {[1..k -> S] : k \in 0..n}

\* Raw terms whose normalized forms collide by case and by outer whitespace.
TopTermInputs ==
    { <<"a","b">>, <<"A","B">>, <<" ","a","b"," ">>, <<"b">>, <<"c">>, <<" ">> }

\* Zero-result terms and corpus terms with equal and unequal ratios:
\* for "ab", "a" and "abcd" tie at 2/3, "abc" and "abd" tie at 4/5.
ZeroTermInputs == { <<"a","b">>, <<"A","B">>, <<"a","b","c">>, <<"x","y">> }
CorpusTermInputs ==
    << <<"a">>, <<"A","b">>, <<"a","b">>, <<"a","b","c">>, <<"a","b","d">>,
       <<"a","b","c","d">> >>

\* A corpus: some of the corpus terms, in the listed order or the reverse.
CorpusInputs ==
    LET n == Len(CorpusTermInputs)
        Pick(S, up) ==
            LET k == Cardinality(S)
                At(r) == CHOOSE i \in S : Cardinality({j \in S : j < i}) = r - 1
            IN  [r \in 1..k |-> CorpusTermInputs[IF up THEN At(r) ELSE At(k + 1 - r)]]
    IN  {Pick(S, up) : S \in {T \in SUBSET (1..n) : Cardinality(T) <= MaxCorpus},
                       up \in BOOLEAN}

CatWords ==
    { <<"c","o","m","p","a","r","e">>, <<"V","S">>,
      <<"H","o","r","s","e","p","o","w","e","r">>, <<"p","r","i","c","e">>,
      <<"L","e","a","s","e">>, <<"m","p","g">>, <<"b","a","t","t","e","r","y">>,
      <<"s","u","v">> }

\* " ".join(words)
RECURSIVE Join(_)
Join(words) ==
    IF words = <<>> THEN <<>>
    ELSE IF Len(words) = 1 THEN words[1]
    ELSE words[1] \o <<" ">> \o Join(Tail(words))

CatTermInputs == {Join(ws) : ws \in SeqUpTo(CatWords, MaxCatWords)}

\* Rows of the shared DataFrame, some with a missing required field.
PipelineRowInputs ==
    { Row(<<"a","b">>, U1, US), Row(<<"A","B"," ">>, U2, EU),
      Row(<<"m","p","g">>, U1, EU), Row(None, U1, US),
      Row(<<"a","b">>, None, US), Row(<<"m","p","g">>, U2, None) }

Event(date, result_count, term, user) ==
    [event_date |-> date, search_result_count |-> result_count,
     search_term |-> term, user_pseudo_id |-> user, region |-> US]

\* On each day a zero-result search and a search with results; on day 1
\* also a zero-result event without a search term.
EventInputs ==
    {Event(d, 0, <<"a","b">>, U1) : d \in 1..MaxDate}
    \cup {Event(d, 3, <<"a","b">>, U2) : d \in 1..MaxDate}
    \cup {Event(1, 0, None, U2)}

--------------------------------------------------------------------------
(* The stages, called on a loaded DataFrame *)

\* analyze_top_zero_result_terms(zero_results_df, n): adds the column
\* search_term_normalized to the caller's DataFrame, returns the top terms.
AnalyzeTopCall(n) ==
    /\ top_n' = n
    /\ col_normalized' = Column(NormalizedColumn(zero_results_df))
    /\ \E rows \in TopTermsResults(zero_results_df, n) : top_terms' = Returned(rows)

\* detect_potential_typos(zero_results_df, successful_searches_df)
DetectTyposCall ==
    \E outcome \in TypoResults(zero_results_df, successful_searches_df) :
        typo_df' = outcome

\* analyze_by_region(zero_results_df)
AnalyzeByRegionCall ==
    \E outcome \in RegionalResults(zero_results_df) : regional_analysis' = outcome

\* categorize_zero_results(zero_results_df): adds the column category
\* unless categorize_search raises.
CategorizeCall ==
    /\ col_category' = IF CategorizeRaises(zero_results_df) THEN col_category
                       ELSE Column(CategoryColumn(zero_results_df))
    /\ \E outcome \in CategoryResults(zero_results_df) : category_summary' = outcome

analyze_top_zero_result_terms ==
    /\ pc = "caller"
    /\ top_terms = NotRun
    /\ AnalyzeTopCall(top_n)
    /\ UNCHANGED <<zero_results_df, col_category, successful_searches_df, typo_df,
                   regional_analysis, category_summary, ga4_events, start_date,
                   end_date, pc, queries, trend_df, report>>

detect_potential_typos ==
    /\ pc = "caller"
    /\ typo_df = NotRun
    /\ DetectTyposCall
    /\ UNCHANGED <<zero_results_df, col_normalized, col_category,
                   successful_searches_df, top_n, top_terms, regional_analysis,
                   category_summary, ga4_events, start_date, end_date, pc, queries,
                   trend_df, report>>

analyze_by_region ==
    /\ pc = "caller"
    /\ regional_analysis = NotRun
    /\ AnalyzeByRegionCall
    /\ UNCHANGED <<zero_results_df, col_normalized, col_category,
                   successful_searches_df, top_n, top_terms, typo_df,
                   category_summary, ga4_events, start_date, end_date, pc, queries,
                   trend_df, report>>

categorize_zero_results ==
    /\ pc = "caller"
    /\ category_summary = NotRun
    /\ CategorizeCall
    /\ UNCHANGED <<zero_results_df, col_normalized, successful_searches_df, top_n,
                   top_terms, typo_df, regional_analysis, ga4_events, start_date,
                   end_date, pc, queries, trend_df, report>>

--------------------------------------------------------------------------
(* generate_content_gap_report(start_date, end_date), statement by statement *)

\* Line 253: load_zero_result_searches, the first query.
ReportLoad ==
    /\ pc = "load"
    /\ \E df \in LoadResults(ga4_events, start_date, end_date) : zero_results_df' = df
    /\ queries' = queries + 1
    /\ pc' = "top_terms"
    /\ UNCHANGED <<col_normalized, col_category, successful_searches_df, top_n,
                   top_terms, typo_df, regional_analysis, category_summary,
                   ga4_events, start_date, end_date, trend_df, report>>

\* Line 256
ReportTopTerms ==
    /\ pc = "top_terms"
    /\ AnalyzeTopCall(ReportTopN)
    /\ pc' = "regional"
    /\ UNCHANGED <<zero_results_df, col_category, successful_searches_df, typo_df,
                   regional_analysis, category_summary, ga4_events, start_date,
                   end_date, queries, trend_df, report>>

\* Line 259
ReportRegional ==
    /\ pc = "regional"
    /\ AnalyzeByRegionCall
    /\ pc' = "categories"
    /\ UNCHANGED <<zero_results_df, col_normalized, col_category,
                   successful_searches_df, top_n, top_terms, typo_df,
                   category_summary, ga4_events, start_date, end_date, queries,
                   trend_df, report>>

\* Line 262: an exception of categorize_zero_results ends the report call.
ReportCategorize ==
    /\ pc = "categories"
    /\ CategorizeCall
    /\ pc' = IF CategorizeRaises(zero_results_df) THEN "raised" ELSE "trend"
    /\ report' = IF CategorizeRaises(zero_results_df)
                 THEN Raised("AttributeError") ELSE report
    /\ UNCHANGED <<zero_results_df, col_normalized, successful_searches_df, top_n,
                   top_terms, typo_df, regional_analysis, ga4_events, start_date,
                   end_date, queries, trend_df>>

\* Line 265: calculate_zero_result_rate_trend, the second query.
ReportTrend ==
    /\ pc = "trend"
    /\ trend_df' = Returned(TrendRows(ga4_events, start_date, end_date))
    /\ queries' = queries + 1
    /\ pc' = "assemble"
    /\ UNCHANGED <<zero_results_df, col_normalized, col_category,
                   successful_searches_df, top_n, top_terms, typo_df,
                   regional_analysis, category_summary, ga4_events, start_date,
                   end_date, report>>

\* Lines 267-280
ReportReturn ==
    /\ pc = "assemble"
    /\ report' = Returned(<<Report(zero_results_df, top_terms.rows,
                                   regional_analysis.rows, category_summary.rows,
                                   trend_df.rows)>>)
    /\ pc' = "done"
    /\ UNCHANGED <<zero_results_df, col_normalized, col_category,
                   successful_searches_df, top_n, top_terms, typo_df,
                   regional_analysis, category_summary, ga4_events, start_date,
                   end_date, queries, trend_df>>

--------------------------------------------------------------------------
(* Specifications *)

\* What every initial state shares: no stage has run, no column was added.
Fresh ==
    /\ col_normalized = NoColumn
    /\ col_category = NoColumn
    /\ top_terms = NotRun
    /\ typo_df = NotRun
    /\ regional_analysis = NotRun
    /\ category_summary = NotRun
    /\ trend_df = NotRun
    /\ report = NotRun
    /\ queries = 0

NoReportCall ==
    /\ pc = "caller"
    /\ ga4_events = <<>>
    /\ start_date = 1
    /\ end_date = 1

\* The four stages, each called once in any order on one DataFrame whose
\* rows may lack a required field.
Init ==
    /\ Fresh
    /\ NoReportCall
    /\ zero_results_df \in SeqUpTo(PipelineRowInputs, MaxPipelineRecords)
    /\ successful_searches_df \in { << <<"a","b">> >>, << <<"a","b","c">>, <<"m","p">> >> }
    /\ top_n = MaxTopN

Next ==
    \/ analyze_top_zero_result_terms
    \/ detect_potential_typos
    \/ analyze_by_region
    \/ categorize_zero_results

Spec == Init /\ [][Next]_vars

\* categorize_search on one term.
InitCategorize ==
    /\ Fresh
    /\ NoReportCall
    /\ \E t \in CatTermInputs : zero_results_df = <<Row(t, U1, US)>>
    /\ successful_searches_df = <<>>
    /\ top_n = 0

SpecCategorize == InitCategorize /\ [][categorize_zero_results]_vars

\* analyze_top_zero_result_terms on well-formed rows.
InitTopTerms ==
    /\ Fresh
    /\ NoReportCall
    /\ zero_results_df \in SeqUpTo({Row(t, U1, US) : t \in TopTermInputs}, MaxRecords)
    /\ successful_searches_df = <<>>
    /\ top_n \in 0..MaxTopN

SpecTopTerms == InitTopTerms /\ [][analyze_top_zero_result_terms]_vars

\* detect_potential_typos on well-formed rows.
InitTypos ==
    /\ Fresh
    /\ NoReportCall
    /\ zero_results_df \in SeqUpTo({Row(t, U1, US) : t \in ZeroTermInputs}, MaxZeroRecords)
    /\ successful_searches_df \in CorpusInputs
    /\ top_n = 0

SpecTypos == InitTypos /\ [][detect_potential_typos]_vars

\* One call of generate_content_gap_report on a log.
InitReport ==
    /\ Fresh
    /\ pc = "load"
    /\ ga4_events \in SeqUpTo(EventInputs, MaxEvents)
    /\ start_date \in 1..MaxDate
    /\ end_date \in 1..MaxDate
    /\ zero_results_df = <<>>
    /\ successful_searches_df = <<>>
    /\ top_n = 0

NextReport ==
    \/ ReportLoad
    \/ ReportTopTerms
    \/ ReportRegional
    \/ ReportCategorize
    \/ ReportTrend
    \/ ReportReturn

SpecReport == InitReport /\ [][NextReport]_vars


--------------------------------------------------------------------------
(* Claims about categorize_search (SpecCategorize) *)

T_battery == <<"b","a","t","t","e","r","y">>
T_compare_price_mpg ==
    Join(<< <<"c","o","m","p","a","r","e">>, <<"p","r","i","c","e">>, <<"m","p","g">> >>)

\* The category the rule cascade of the specification gives a term: the
\* first rule, in the order 1..4, one of whose keywords occurs in the
\* lowercased term (rule 4: the original term has exactly one token).
CascadeCategory(term) ==
    LET low == StrLower(term)
        Has(kw) == \E i \in 1..Len(low) :
                      /\ i + Len(kw) - 1 <= Len(low)
                      /\ \A d \in 1..Len(kw) : low[i + d - 1] = kw[d]
        Rule1 == \E w \in {<<"v","s">>, <<"v","e","r","s","u","s">>,
                           <<"c","o","m","p","a","r","e">>, <<"o","r">>} : Has(w)
        Rule2 == \E w \in {<<"p","r","i","c","e">>, <<"c","o","s","t">>,
                           <<"m","s","r","p">>, <<"l","e","a","s","e">>} : Has(w)
        Rule3 == \E w \in {<<"m","p","g">>, <<"h","o","r","s","e","p","o","w","e","r">>,
                           <<"h","p">>, <<"r","a","n","g","e">>,
                           <<"b","a","t","t","e","r","y">>} : Has(w)
        Rule4 == SplitLen(term) = 1
    IN  CASE Rule1 -> "Comparison Query"
          [] ~Rule1 /\ Rule2 -> "Pricing Query"
          [] ~Rule1 /\ ~Rule2 /\ Rule3 -> "Feature/Spec Query"
          [] ~Rule1 /\ ~Rule2 /\ ~Rule3 /\ Rule4 -> "Single Word (Broad)"
          [] OTHER -> "Other"

\* C1: once categorize_zero_results has run, every row's category is the one
\* of the first matching rule in the order Comparison, Pricing, Feature/Spec,
\* Single Word, Other (case-insensitive substring containment); in
\* particular "compare price mpg" is a Comparison Query and the one-token
\* term "battery" is a Feature/Spec Query.
C1_FirstMatchingRuleWins ==
    col_category.present =>
        \A i \in 1..Len(zero_results_df) :
            LET term == zero_results_df[i].search_term
                category == col_category.values[i][1]
            IN  /\ category = CascadeCategory(term)
                /\ term = T_compare_price_mpg => category = "Comparison Query"
                /\ term = T_battery => category = "Feature/Spec Query"

\* C1 witness: the one-token term "battery", which rule 3 and rule 4 both
\* match, has been categorized as Feature/Spec Query.
C1_Witness ==
    /\ col_category.present
    /\ zero_results_df[1].search_term = T_battery
    /\ SplitLen(T_battery) = 1
    /\ col_category.values[1] = <<"Feature/Spec Query">>
    /\ category_summary.status = "ok"

--------------------------------------------------------------------------
(* Claims about detect_potential_typos (SpecTypos) *)

\* The distinct lowercased terms of a column of strings.
LoweredTerms(terms) == {StrLower(terms[i]) : i \in 1..Len(terms)}

ZeroTermsOf(df) == LoweredTerms([i \in 1..Len(df) |-> df[i].search_term])

\* The candidates of a suggestion, best first.
Candidates(s) == <<s.suggested_correction>> \o s.other_suggestions.items

InSeq(x, seq) == \E i \in 1..Len(seq) : seq[i] = x

\* x clears the cutoff 0.6 = 3/5 against the word.
AtLeastCutoff(x, word) == FracLeq(<<3, 5>>, Ratio(x, word))

\* The ranking of the specification: higher ratio first, then the shorter
\* term, then the lexicographically smaller term.
RanksBeforeByLength(x, y, word) ==
    \/ FracLess(Ratio(y, word), Ratio(x, word))
    \/ /\ Ratio(x, word) = Ratio(y, word)
       /\ \/ Len(x) < Len(y)
          \/ (Len(x) = Len(y) /\ StrLess(x, y))

\* The ranking of the code: higher ratio first, then the lexicographically
\* greater term (so of two tied terms one of which is a prefix of the
\* other, the longer one).
RanksBeforeByGreaterTerm(x, y, word) ==
    \/ FracLess(Ratio(y, word), Ratio(x, word))
    \/ (Ratio(x, word) = Ratio(y, word) /\ StrLess(y, x))

\* The candidates of s are at most 3 distinct corpus terms, in the order of
\* the first ranking; a corpus term left out either misses the cutoff or is
\* ranked after three retained ones.
RetainedBy(s, pool, byLength) ==
    LET word == s.zero_result_term
        cands == Candidates(s)
        Before(x, y) == IF byLength THEN RanksBeforeByLength(x, y, word)
                        ELSE RanksBeforeByGreaterTerm(x, y, word)
    IN  /\ Len(cands) <= 3
        /\ \A i \in 1..Len(cands) : cands[i] \in pool
        /\ \A i, j \in 1..Len(cands) : i < j => Before(cands[i], cands[j])
        /\ \A y \in pool :
              \/ InSeq(y, cands)
              \/ ~AtLeastCutoff(y, word)
              \/ (Len(cands) = 3 /\ \A i \in 1..3 : Before(cands[i], y))

\* C2 as stated: the retained candidates are the at most 3 best corpus
\* terms, best first, ties in ratio going to the shorter corpus term and
\* then to the lexicographically smaller one.
C2_TiesToShorterTerm ==
    typo_df.status = "ok" =>
        \A r \in 1..Len(typo_df.rows) :
            RetainedBy(typo_df.rows[r], LoweredTerms(successful_searches_df), TRUE)

\* C2 amended: the retained candidates are the at most 3 best corpus terms,
\* best first, ties in ratio going to the lexicographically greater corpus
\* term.
C2_TiesToGreaterTerm ==
    typo_df.status = "ok" =>
        \A r \in 1..Len(typo_df.rows) :
            RetainedBy(typo_df.rows[r], LoweredTerms(successful_searches_df), FALSE)

\* C2 witness: a suggestion with three candidates, the first two tied in
\* ratio, and a fourth corpus term that ties with the third and is cut off.
C2_Witness ==
    /\ typo_df.status = "ok"
    /\ \E r \in 1..Len(typo_df.rows) :
          LET s == typo_df.rows[r]
              cands == Candidates(s)
          IN  /\ Len(cands) = 3
              /\ Ratio(cands[1], s.zero_result_term) = Ratio(cands[2], s.zero_result_term)
              /\ \E y \in LoweredTerms(successful_searches_df) :
                    /\ ~InSeq(y, cands)
                    /\ Ratio(y, s.zero_result_term) = Ratio(cands[3], s.zero_result_term)
                    /\ Len(y) < Len(cands[3])

\* C3: a distinct zero-result term has a suggestion exactly when some
\* distinct successful term has ratio >= 0.6 to it; in a suggestion every
\* candidate has ratio >= 0.6, the suggested correction has the maximum
\* ratio over the corpus, and the alternates are at most 2, best first, and
\* exclude the suggested correction.
C3_SuggestionIffAboveCutoff ==
    typo_df.status # "NotRun" =>
        LET pool == LoweredTerms(successful_searches_df)
            rows == typo_df.rows
        IN  /\ \A z \in ZeroTermsOf(zero_results_df) :
                  (\E r \in 1..Len(rows) : rows[r].zero_result_term = z)
                  <=> (\E x \in pool : AtLeastCutoff(x, z))
            /\ \A r \in 1..Len(rows) :
                  LET s == rows[r]
                      z == s.zero_result_term
                      alt == s.other_suggestions.items
                  IN  /\ z \in ZeroTermsOf(zero_results_df)
                      /\ \A q \in 1..Len(rows) : rows[q].zero_result_term = z => q = r
                      /\ s.suggested_correction \in pool
                      /\ AtLeastCutoff(s.suggested_correction, z)
                      /\ \A x \in pool :
                            FracLeq(Ratio(x, z), Ratio(s.suggested_correction, z))
                      /\ Len(alt) <= 2
                      /\ s.other_suggestions.none <=> alt = <<>>
                      /\ \A i \in 1..Len(alt) :
                            /\ alt[i] \in pool
                            /\ alt[i] # s.suggested_correction
                            /\ AtLeastCutoff(alt[i], z)
                            /\ \A j \in 1..Len(alt) :
                                  i < j => /\ alt[i] # alt[j]
                                           /\ FracLeq(Ratio(alt[j], z), Ratio(alt[i], z))

\* C3 witness: one zero-result term got a suggestion with two alternates
\* while another, with a non-empty corpus below the cutoff, got none.
C3_Witness ==
    /\ typo_df.status = "ok"
    /\ Len(typo_df.rows) = 1
    /\ Len(typo_df.rows[1].other_suggestions.items) = 2
    /\ \E z \in ZeroTermsOf(zero_results_df) :
          /\ z # typo_df.rows[1].zero_result_term
          /\ \A x \in LoweredTerms(successful_searches_df) : ~AtLeastCutoff(x, z)

\* C4: a zero-result term equal, ignoring case, to a term of the corpus gets
\* a suggestion whose suggested correction is that lowercased term.
C4_IdenticalTermIsSuggested ==
    typo_df.status # "NotRun" =>
        \A i \in 1..Len(zero_results_df) :
            LET z == StrLower(zero_results_df[i].search_term)
            IN  z \in LoweredTerms(successful_searches_df) =>
                    /\ typo_df.status = "ok"
                    /\ \E r \in 1..Len(typo_df.rows) :
                          /\ typo_df.rows[r].zero_result_term = z
                          /\ typo_df.rows[r].suggested_correction = z

\* C4 witness: the term "AB" was matched to the corpus term "Ab", which
\* comes last in a corpus of other close terms, as "ab".
C4_Witness ==
    /\ typo_df.status = "ok"
    /\ \E i \in 1..Len(zero_results_df) :
          zero_results_df[i].search_term = <<"A","B">>
    /\ Len(successful_searches_df) >= 4
    /\ successful_searches_df[Len(successful_searches_df)] = <<"A","b">>
    /\ ~InSeq(<<"a","b">>, successful_searches_df)
    /\ \E r \in 1..Len(typo_df.rows) :
          /\ typo_df.rows[r].zero_result_term = <<"a","b">>
          /\ typo_df.rows[r].suggested_correction = <<"a","b">>
          /\ Len(typo_df.rows[r].other_suggestions.items) = 2


--------------------------------------------------------------------------
(* Claims about analyze_top_zero_result_terms (SpecTopTerms) *)

\* lowercase, then trim
NormalizedTerm(term) == StrStrip(StrLower(term))

NormalizedTermsOf(df) == {NormalizedTerm(df[i].search_term) : i \in 1..Len(df)}

RecordsWithTerm(df, k) ==
    Cardinality({i \in 1..Len(df) : NormalizedTerm(df[i].search_term) = k})

\* The total order of the specification: count descending, then
\* normalized term ascending.
GroupBefore(df, k1, k2) ==
    \/ RecordsWithTerm(df, k1) > RecordsWithTerm(df, k2)
    \/ (RecordsWithTerm(df, k1) = RecordsWithTerm(df, k2) /\ StrLess(k1, k2))

\* C5: the result holds one group per distinct normalized term, at most
\* top_n of them, ordered by search_count descending with equal counts in
\* ascending order of normalized term, and they are the first top_n groups
\* of that order.
C5_TopGroupsInTotalOrder ==
    top_terms.status = "ok" =>
        LET rows == top_terms.rows
            df == zero_results_df
            keys == NormalizedTermsOf(df)
        IN  /\ Len(rows) = Min(top_n, Cardinality(keys))
            /\ \A i \in 1..Len(rows) : rows[i].search_term_normalized \in keys
            /\ \A i, j \in 1..Len(rows) :
                  i < j => GroupBefore(df, rows[i].search_term_normalized,
                                           rows[j].search_term_normalized)
            /\ \A k \in keys :
                  \/ \E i \in 1..Len(rows) : rows[i].search_term_normalized = k
                  \/ \A i \in 1..Len(rows) :
                        GroupBefore(df, rows[i].search_term_normalized, k)

\* C6: every group's search_count is the number of input records with its
\* normalized term and is >= 1, its percentage is search_count / (number of
\* all input records) * 100 whatever top_n cuts off, and over a result that
\* is not truncated the counts sum to the number of records and the
\* percentages to 100.
C6_CountsAndPercentages ==
    top_terms.status = "ok" =>
        LET rows == top_terms.rows
            df == zero_results_df
        IN  /\ \A i \in 1..Len(rows) :
                  /\ rows[i].search_count >= 1
                  /\ rows[i].search_count =
                        RecordsWithTerm(df, rows[i].search_term_normalized)
                  /\ rows[i].percentage[2] > 0
                  /\ rows[i].percentage[1] * Len(df) =
                        rows[i].search_count * 100 * rows[i].percentage[2]
            /\ (Len(rows) = Cardinality(NormalizedTermsOf(df)) /\ df # <<>>) =>
                  /\ SumSeq([i \in 1..Len(rows) |-> rows[i].search_count]) = Len(df)
                  /\ FracSum([i \in 1..Len(rows) |-> rows[i].percentage]) = <<100, 1>>

\* C6 witness: three records in two groups, one group merging two casings
\* of a term, returned whole: 2 of 3 and 1 of 3.
C6_Witness ==
    /\ top_terms.status = "ok"
    /\ Len(zero_results_df) = 3
    /\ Len(top_terms.rows) = 2
    /\ Cardinality(NormalizedTermsOf(zero_results_df)) = 2
    /\ Cardinality({zero_results_df[i].search_term : i \in 1..3}) = 3
    /\ top_terms.rows[1].search_count = 2
    /\ top_terms.rows[1].percentage = <<200, 3>>
    /\ top_terms.rows[2].percentage = <<100, 3>>

--------------------------------------------------------------------------
(* Claims about generate_content_gap_report (SpecReport) *)

\* C7: a call whose start date is after its end date executes no query and
\* ends with the error InvalidDateRange, returning no report.
C7_InvalidDateRangeBeforeAnyQuery ==
    start_date > end_date =>
        /\ queries = 0
        /\ pc \in {"done", "raised"} => report.status = "InvalidDateRange"

\* C9: every daily point has 0 <= zero_result_searches <= total_searches,
\* these are the day's counts in the log, zero_result_rate is their
\* quotient, a point with total_searches = 0 has rate 0, and the points are
\* in ascending order of date.
C9_TrendRates ==
    trend_df.status = "ok" =>
        LET rows == trend_df.rows
            OnDay(d) == {i \in 1..Len(ga4_events) : ga4_events[i].event_date = d}
        IN  /\ \A i \in 1..Len(rows) :
                  LET p == rows[i]
                  IN  /\ 0 <= p.zero_result_searches
                      /\ p.zero_result_searches <= p.total_searches
                      /\ p.total_searches = Cardinality(OnDay(p.event_date))
                      /\ p.zero_result_searches =
                            Cardinality({e \in OnDay(p.event_date) :
                                            ga4_events[e].search_result_count = 0})
                      /\ p.zero_result_rate[2] > 0
                      /\ p.zero_result_rate[1] * p.total_searches =
                            p.zero_result_searches * p.zero_result_rate[2]
                      /\ p.total_searches = 0 => p.zero_result_rate = <<0, 1>>
            /\ \A i, j \in 1..Len(rows) :
                  i < j => rows[i].event_date < rows[j].event_date

\* C9 witness: a trend of two days, the first with one zero-result search
\* out of two, the second with none out of one.
C9_Witness ==
    /\ trend_df.status = "ok"
    /\ Len(trend_df.rows) = 2
    /\ trend_df.rows[1].total_searches = 2
    /\ trend_df.rows[1].zero_result_rate = <<1, 2>>
    /\ trend_df.rows[2].zero_result_rate = <<0, 1>>
    /\ trend_df.rows[1].event_date < trend_df.rows[2].event_date

--------------------------------------------------------------------------
(* Claim about records with a missing field (Spec) *)

Malformed(row) ==
    row.search_term = None \/ row.user_pseudo_id = None \/ row.region = None

\* The DataFrame without its malformed rows.
WellFormedRows(df) == SelectSeq(df, LAMBDA row : ~Malformed(row))

\* C8: a stage given records with a missing required field completes, and
\* returns what it returns for the input without those records.
C8_MalformedRecordsSkipped ==
    LET clean == WellFormedRows(zero_results_df)
    IN  /\ top_terms.status # "NotRun" =>
              /\ top_terms.status = "ok"
              /\ top_terms.rows \in TopTermsResults(clean, top_n)
        /\ category_summary.status # "NotRun" =>
              category_summary \in CategoryResults(clean)
        /\ regional_analysis.status # "NotRun" =>
              regional_analysis \in RegionalResults(clean)
        /\ typo_df.status # "NotRun" =>
              typo_df \in TypoResults(clean, successful_searches_df)

--------------------------------------------------------------------------
(* Claim about the frequency of a suggestion (SpecTypos) *)

\* C10: every suggestion's frequency is the number of zero-result records
\* whose term equals its zero_result_term ignoring case, and the
\* suggestions come in descending order of frequency.
C10_FrequencyDescending ==
    typo_df.status = "ok" =>
        LET rows == typo_df.rows
        IN  /\ \A r \in 1..Len(rows) :
                  rows[r].frequency =
                      Cardinality({i \in 1..Len(zero_results_df) :
                          StrLower(zero_results_df[i].search_term)
                              = rows[r].zero_result_term})
            /\ \A r \in 1..(Len(rows) - 1) :
                  rows[r].frequency >= rows[r+1].frequency

\* C10 witness: the second distinct term of the input, typed twice in two
\* casings, comes before the first, typed once.
C10_Witness ==
    /\ typo_df.status = "ok"
    /\ Len(zero_results_df) = 3
    /\ Len(typo_df.rows) = 2
    /\ typo_df.rows[1].frequency = 2
    /\ typo_df.rows[2].frequency = 1
    /\ typo_df.rows[2].zero_result_term = StrLower(zero_results_df[1].search_term)
    /\ zero_results_df[2].search_term # zero_results_df[3].search_term


--------------------------------------------------------------------------
(* Claim about a call that finds no suggestion (SpecTypos) *)

\* C11: when no zero-result term has a successful term at or above the
\* cutoff (an empty zero-result set and an empty corpus included), the call
\* completes without an error and returns the empty set of suggestions.
C11_NoMatchReturnsEmpty ==
    (/\ typo_df.status # "NotRun"
     /\ \A z \in ZeroTermsOf(zero_results_df) :
           \A x \in LoweredTerms(successful_searches_df) : ~AtLeastCutoff(x, z))
    => typo_df = Returned(<<>>)

--------------------------------------------------------------------------
(* Claim about the input record set (Spec) *)

\* C12: no analysis stage changes the loaded record set: after any step of
\* analyze_top_zero_result_terms, detect_potential_typos, analyze_by_region
\* or categorize_zero_results, in any order, the DataFrame has the rows it
\* had and the columns it had, with the same values.
C12_RecordSetUnchanged ==
    [][/\ zero_results_df' = zero_results_df
       /\ col_normalized' = col_normalized
       /\ col_category' = col_category]_vars

==========================================================================
